---- MODULE Spec2Model ----
(***************************************************************************)
(* Model of pkg/gomodcmd/runner.go: the Runner that drives the Go tool.    *)
(*                                                                         *)
(* Text is a sequence of strings.  Text the code looks into (the tool's    *)
(* output, paths) is written one character per element; a literal of the   *)
(* source that no operation looks into is written as one element.          *)
(* The subprocess and the filesystem are the environment: the tool is an   *)
(* arbitrary binary (goCmd is the caller's), so what it prints, how it     *)
(* exits and whether "mod init" writes a go.mod are nondeterministic.      *)
(* A call blocks only in cmd.Run; every handler is split there and nowhere *)
(* else.                                                                   *)
(***************************************************************************)
EXTENDS Naturals, Sequences, FiniteSets

VARIABLES
    r,       \* the Runner allocated by NewRunner (runner.go:28)
    op,      \* the call in progress: "none", "NewRunner", "GetD", "Install", "ModTidy"
    pc,      \* where that call waits: "idle", "version", "list", "init", "run"
    ctx,     \* the context of the call in progress: "live", "canceled", "deadline"
    input,   \* the arguments of the call in progress (or of the last one)
    calls,   \* the subprocess invocations of that call, in order; the last is the current one
    steps,   \* the steps NewRunner has performed, in order, each with its result
    fs,      \* the filesystem: whether modDir exists, whether modDir/go.mod exists
    fs0,     \* the filesystem when NewRunner was called
    ret      \* what the last call returned, once it has

vars == <<r, op, pc, ctx, input, calls, steps, fs, fs0, ret>>

(***************************************************************************)
(* Bounds                                                                  *)
(***************************************************************************)
MaxPkgs == 2

(***************************************************************************)
(* Text helpers (strings, path/filepath)                                   *)
(***************************************************************************)
LF == "\n"

\* strings.TrimRight(s, "\n")
RECURSIVE TrimRight(_)
TrimRight(s) ==
    IF s = <<>> THEN s
    ELSE IF s[Len(s)] = LF THEN TrimRight(SubSeq(s, 1, Len(s) - 1))
    ELSE s

\* strings.Contains, used by a mutant of HasPrefix and by the properties
Contains(s, sub) ==
    \E i \in 0..Len(s) : i + Len(sub) <= Len(s) /\ SubSeq(s, i + 1, i + Len(sub)) = sub

\* a bug: strings.Contains where strings.HasPrefix is meant
HasPrefixAnywhere(s, p) == Contains(s, p)

\* strings.HasPrefix
HasPrefix(s, p) ==
    Len(s) >= Len(p) /\ SubSeq(s, 1, Len(p)) = p

\* strings.Join(elems, sep) on a sequence of texts
RECURSIVE Join(_, _)
Join(elems, sep) ==
    IF elems = <<>> THEN <<>>
    ELSE IF Len(elems) = 1 THEN elems[1]
    ELSE elems[1] \o sep \o Join(Tail(elems), sep)

\* the segments of a path between its separators
RECURSIVE Split(_, _)
Split(s, cur) ==
    IF s = <<>> THEN <<cur>>
    ELSE IF Head(s) = "/" THEN <<cur>> \o Split(Tail(s), <<>>)
    ELSE Split(Tail(s), Append(cur, Head(s)))

Dot == <<".">>
DotDot == <<".", ".">>

\* filepath.Clean's walk over the segments: drop empty and ".", resolve ".."
RECURSIVE CleanSegs(_, _, _)
CleanSegs(segs, acc, rooted) ==
    IF segs = <<>> THEN acc
    ELSE LET s == Head(segs)
             rest == Tail(segs)
         IN  IF s = <<>> \/ s = Dot THEN CleanSegs(rest, acc, rooted)
             ELSE IF s = DotDot
                  THEN IF acc # <<>> /\ acc[Len(acc)] # DotDot
                       THEN CleanSegs(rest, SubSeq(acc, 1, Len(acc) - 1), rooted)
                       ELSE IF rooted THEN CleanSegs(rest, acc, rooted)
                       ELSE CleanSegs(rest, Append(acc, s), rooted)
             ELSE CleanSegs(rest, Append(acc, s), rooted)

\* filepath.Clean
Clean(p) ==
    IF p = <<>> THEN Dot
    ELSE LET rooted == p[1] = "/"
             body == Join(CleanSegs(Split(p, <<>>), <<>>, rooted), <<"/">>)
         IN  IF rooted THEN <<"/">> \o body
             ELSE IF body = <<>> THEN Dot ELSE body

\* filepath.Join: from the first non-empty element on, joined and cleaned
RECURSIVE filepathJoin(_)
filepathJoin(elems) ==
    IF elems = <<>> THEN <<>>
    ELSE IF Head(elems) # <<>> THEN Clean(Join(elems, <<"/">>))
    ELSE filepathJoin(Tail(elems))

(***************************************************************************)
(* What the callers pass and what the environment may answer               *)
(***************************************************************************)
GoCmd == <<"go">>

\* modDir values: ".b", "t/../b", "/b"
ModDirs == { <<".", "b">>, <<"t", "/", ".", ".", "/", "b">>, <<"/", "b">> }

\* "go version go1.14."
VersionPrefix ==
    <<"g", "o", " ", "v", "e", "r", "s", "i", "o", "n", " ", "g", "o", "1", ".", "1", "4", ".">>

\* what "go version" may print: go1.14.9, go1.14. with two newlines, go1.15.2,
\* go1.14 cut before the dot, a line that only contains the prefix, nothing
VersionOutputs ==
    { VersionPrefix \o <<"9", LF>>,
      VersionPrefix \o <<LF, LF>>,
      SubSeq(VersionPrefix, 1, 15) \o <<"5", ".", "2", LF>>,
      SubSeq(VersionPrefix, 1, 17),
      <<"x">> \o VersionPrefix \o <<"9", LF>>,
      <<>> }

\* what "go list -m" may print: "m\n", "m/a", nothing
ListOutputs == { <<"m", LF>>, <<"m", "/", "a">>, <<>> }

\* what any other subcommand may print: nothing, or a line
OtherOutputs == { <<>>, <<"e", LF>> }

Packages == { <<"p@v1">>, <<"q">> }

PackageLists == UNION { [1..n -> Packages] : n \in 0..MaxPkgs }

\* GetUpdatePolicy
NoUpdatePolicy == <<>>
UpdatePolicy == <<"-u">>
UpdatePatchPolicy == <<"-u=patch">>
Policies == { NoUpdatePolicy, UpdatePolicy, UpdatePatchPolicy }

ArgsVersion == << <<"version">> >>
ArgsList == << <<"list">>, <<"-m">> >>

IsModInit(args) == Len(args) >= 2 /\ args[1] = <<"mod">> /\ args[2] = <<"init">>

OutputsFor(args) ==
    IF args = ArgsVersion THEN VersionOutputs
    ELSE IF args = ArgsList THEN ListOutputs
    ELSE OtherOutputs

\* ctx.Err()
CtxErr(cx) == IF cx = "canceled" THEN <<"context canceled">> ELSE <<"context deadline exceeded">>

NoInput == [update |-> <<>>, packages |-> <<>>]
NoRet == [op |-> "none", ok |-> FALSE, text |-> <<>>]
NoRunner == [goCmd |-> <<>>, modDir |-> <<>>, insecure |-> FALSE, verbose |-> FALSE]

(***************************************************************************)
(* Runner.exec (runner.go:73-91), split at cmd.Run                         *)
(***************************************************************************)
\* exec.CommandContext, cmd.Dir, the buffer, and the start of cmd.Run: with a context
\* already done Start returns ctx.Err(); otherwise the process runs, or it cannot be
\* started (binary not found, fork failure)
execStart(cx, cd, command, args) ==
    LET p == [dir |-> filepathJoin(<< <<>>, cd >>), command |-> command, args |-> args,
              st |-> "done", err |-> "other", errText |-> <<>>, out |-> <<>>,
              killed |-> FALSE, created |-> FALSE]
    IN  IF cx # "live" THEN { [p EXCEPT !.errText = CtxErr(cx)] }
        ELSE { [p EXCEPT !.st = "running", !.err = "nil"],
               [p EXCEPT !.errText = <<"exec: not started">>] }

\* "'%s %s'", command, strings.Join(args, " ")
CmdLine(command, args) == command \o <<" ">> \o Join(args, <<" ">>)

\* errors.Errorf("error while running command '%s %s'; out: %s; err: %v", ...)
RunError(p) ==
    <<"error while running command '">> \o CmdLine(p.command, p.args)
        \o <<"'; out: ">> \o p.out \o <<"; err: ">> \o p.errText

\* a bug: the terse text for every failure
execNeverWrap(c, p) ==
    IF p.err = "nil" THEN [ok |-> TRUE, val |-> TrimRight(p.out), text |-> <<>>]
    ELSE [ok |-> FALSE, val |-> <<>>, text |-> p.out]

\* a bug: an *exec.ExitError is not treated as a failure
execIgnoreExit(c, p) ==
    IF p.err # "other" THEN [ok |-> TRUE, val |-> TrimRight(p.out), text |-> <<>>]
    ELSE [ok |-> FALSE, val |-> <<>>, text |-> RunError(p)]

\* what exec returns once cmd.Run has returned for the finished process p
exec(c, p) ==
    IF p.err = "nil" THEN [ok |-> TRUE, val |-> TrimRight(p.out), text |-> <<>>]
    ELSE IF p.err = "exit"
         THEN IF c.verbose THEN [ok |-> FALSE, val |-> <<>>, text |-> RunError(p)]
              ELSE [ok |-> FALSE, val |-> <<>>, text |-> p.out]
    ELSE [ok |-> FALSE, val |-> <<>>, text |-> RunError(p)]

\* c.execGo: exec with cd = ""
execGoStart(cx, c, args) == execStart(cx, <<>>, c.goCmd, args)

\* a bug: the subcommand is run in the caller's directory
execGoInModDirStartNoCd(cx, c, args) == execStart(cx, <<>>, c.goCmd, args)

\* c.execGoInModDir: exec with cd = c.modDir
execGoInModDirStart(cx, c, args) == execStart(cx, c.modDir, c.goCmd, args)

\* errors.Wrap(err, msg): "msg: err"
Wrap(text, msg) == msg \o <<": ">> \o text

(***************************************************************************)
(* NewRunner (runner.go:27-63)                                             *)
(***************************************************************************)
\* os.MkdirAll(modDir, os.ModePerm): the directory is there afterwards, or an error
MkdirResults == { "ok", "fail" }

\* os.Stat(modDir/go.mod): nil only for a file that is there, IsNotExist only for
\* one that is not, or another error (permissions, I/O)
StatResults(f) == IF f.manifest THEN { "ok", "other" } ELSE { "notexist", "other" }

\* a bug: the bootstrap branch is taken unless stat failed otherwise
NeedsInitUnlessOther(st) == st # "other"

\* runner.go:47-48: the bootstrap branch is taken for a stat error that IsNotExist
NeedsInit(st) == st = "notexist"

Outcome(st, mk, nx, tx) == [steps |-> st, mkdir |-> mk, next |-> nx, text |-> tx]

\* a bug: os.MkdirAll is called before the version is looked at
AfterVersionMkdirFirst(c, res, mk, st) ==
    IF ~res.ok
    THEN Outcome(<< <<"version", "fail">> >>, mk = "ok", "fail",
                 Wrap(res.text, <<"exec go to detect the version">>))
    ELSE IF ~HasPrefix(res.val, VersionPrefix)
    THEN Outcome(<< <<"version", "ok">>, <<"check", "fail">> >>, mk = "ok", "fail",
                 <<"found unsupported go version: ">> \o res.val \o <<". Requires go1.14.x">>)
    ELSE IF mk # "ok"
    THEN Outcome(<< <<"version", "ok">>, <<"check", "ok">>, <<"mkdir", "fail">> >>, FALSE, "fail",
                 Wrap(<<"mkdir: permission denied">>, <<"create moddir ">> \o c.modDir))
    ELSE LET done == << <<"version", "ok">>, <<"check", "ok">>, <<"mkdir", "ok">>, <<"stat", st>> >>
         IN  IF NeedsInit(st) THEN Outcome(done, TRUE, "list", <<>>)
             ELSE IF st = "ok" THEN Outcome(done, TRUE, "ok", <<>>)
             ELSE Outcome(done, TRUE, "fail",
                          Wrap(<<"stat: permission denied">>,
                               <<"stat module file ">> \o filepathJoin(<<c.modDir, <<"go.mod">> >>)))

\* runner.go:34-50, from the return of the version query to the return of NewRunner
\* or to the "list -m" call: the steps taken, whether modDir was created, what is
\* next ("fail", "ok", or "list") and the error text
AfterVersion(c, res, mk, st) ==
    IF ~res.ok
    THEN Outcome(<< <<"version", "fail">> >>, FALSE, "fail",
                 Wrap(res.text, <<"exec go to detect the version">>))
    ELSE IF ~HasPrefix(res.val, VersionPrefix)
    THEN Outcome(<< <<"version", "ok">>, <<"check", "fail">> >>, FALSE, "fail",
                 <<"found unsupported go version: ">> \o res.val \o <<". Requires go1.14.x">>)
    ELSE IF mk # "ok"
    THEN Outcome(<< <<"version", "ok">>, <<"check", "ok">>, <<"mkdir", "fail">> >>, FALSE, "fail",
                 Wrap(<<"mkdir: permission denied">>, <<"create moddir ">> \o c.modDir))
    ELSE LET done == << <<"version", "ok">>, <<"check", "ok">>, <<"mkdir", "ok">>, <<"stat", st>> >>
         IN  IF NeedsInit(st) THEN Outcome(done, TRUE, "list", <<>>)
             ELSE IF st = "ok" THEN Outcome(done, TRUE, "ok", <<>>)
             ELSE Outcome(done, TRUE, "fail",
                          Wrap(<<"stat: permission denied">>,
                               <<"stat module file ">> \o filepathJoin(<<c.modDir, <<"go.mod">> >>)))

\* a bug: the elements of the module name in the other order
ModInitArgsSwapped(c, currMod) ==
    << <<"mod">>, <<"init">>, filepathJoin(<<c.modDir, currMod>>) >>

\* runner.go:58: "mod", "init", filepath.Join(currMod, r.modDir)
ModInitArgs(c, currMod) ==
    << <<"mod">>, <<"init">>, filepathJoin(<<currMod, c.modDir>>) >>

(***************************************************************************)
(* GetD, Install, ModTidy (runner.go:93-125)                               *)
(***************************************************************************)
\* a bug: the update flag is appended before "-insecure"
GetDArgsUpdateFirst(c, update, packages) ==
    << <<"get">>, <<"-d">> >>
        \o (IF update # NoUpdatePolicy THEN <<update>> ELSE <<>>)
        \o (IF c.insecure THEN << <<"-insecure">> >> ELSE <<>>)
        \o packages

\* runner.go:103-111
GetDArgs(c, update, packages) ==
    << <<"get">>, <<"-d">> >>
        \o (IF c.insecure THEN << <<"-insecure">> >> ELSE <<>>)
        \o (IF update # NoUpdatePolicy THEN <<update>> ELSE <<>>)
        \o packages

\* runner.go:117
InstallArgs(packages) == << <<"install">> >> \o packages

\* runner.go:123
ModTidyArgs == << <<"mod">>, <<"tidy">> >>

Methods == { "GetD", "Install", "ModTidy" }

(***************************************************************************)
(* The state machine                                                       *)
(***************************************************************************)
\* the subprocess of the call in progress
cur == calls[Len(calls)]

SetCur(p) == [calls EXCEPT ![Len(calls)] = p]

\* the caller holds a Runner: NewRunner has returned one, and no call is in progress
Constructed == op = "none" /\ ret.op # "none" /\ (ret.op = "NewRunner" => ret.ok)

FsStates ==
    { [dir |-> FALSE, manifest |-> FALSE],
      [dir |-> TRUE, manifest |-> FALSE],
      [dir |-> TRUE, manifest |-> TRUE] }

Init ==
    /\ r = NoRunner
    /\ op = "none"
    /\ pc = "idle"
    /\ ctx = "live"
    /\ input = NoInput
    /\ calls = <<>>
    /\ steps = <<>>
    /\ fs \in FsStates
    /\ fs0 = fs
    /\ ret = NoRet

\* NewRunner up to the wait for "go version" (runner.go:27-34); verbose is never set
CallNewRunner(insecure, modDir, goCmd, cx) ==
    /\ op = "none"
    /\ r = NoRunner
    /\ LET c == [goCmd |-> goCmd, modDir |-> modDir, insecure |-> insecure, verbose |-> FALSE]
       IN  /\ r' = c
           /\ \E p \in execGoStart(cx, c, ArgsVersion) : calls' = <<p>>
    /\ op' = "NewRunner"
    /\ pc' = "version"
    /\ ctx' = cx
    /\ steps' = <<>>
    /\ fs0' = fs
    /\ ret' = NoRet
    /\ UNCHANGED <<input, fs>>

\* the environment: the running subprocess ends by itself, with what it printed, its
\* exit status, and, for "mod init", with or without a go.mod written into modDir
ProcExit(code, out, wrote) ==
    /\ op # "none"
    /\ cur.st = "running"
    /\ out \in OutputsFor(cur.args)
    /\ wrote => IsModInit(cur.args)
    /\ calls' = SetCur([cur EXCEPT !.st = "done",
                                   !.err = IF code = 0 THEN "nil" ELSE "exit",
                                   !.errText = IF code = 0 THEN <<>> ELSE <<"exit status 1">>,
                                   !.out = out,
                                   !.created = wrote])
    /\ fs' = IF wrote THEN [fs EXCEPT !.manifest = TRUE] ELSE fs
    /\ UNCHANGED <<r, op, pc, ctx, input, steps, fs0, ret>>

\* the environment: the caller's context is cancelled or its deadline passes while the
\* call is in progress; exec.CommandContext kills a process that is still running, and
\* cmd.Run then returns an *exec.ExitError ("signal: killed")
CtxFire(how, out) ==
    /\ op # "none"
    /\ ctx = "live"
    /\ ctx' = how
    /\ IF cur.st = "running"
       THEN /\ out \in OutputsFor(cur.args)
            /\ calls' = SetCur([cur EXCEPT !.st = "done", !.err = "exit",
                                           !.errText = <<"signal: killed">>,
                                           !.out = out, !.killed = TRUE])
       ELSE /\ out = <<>>
            /\ UNCHANGED calls
    /\ UNCHANGED <<r, op, pc, input, steps, fs, fs0, ret>>

Return(name, ok, text) ==
    /\ op' = "none"
    /\ pc' = "idle"
    /\ ctx' = "live"
    /\ ret' = [op |-> name, ok |-> ok, text |-> text]

\* NewRunner from the return of "go version" to its own return or to the wait for
\* "go list -m" (runner.go:34-51)
NewRunnerVersionDone ==
    /\ op = "NewRunner"
    /\ pc = "version"
    /\ cur.st = "done"
    /\ \E mk \in MkdirResults, st \in StatResults(fs) :
          LET o == AfterVersion(r, exec(r, cur), mk, st)
          IN  /\ steps' = o.steps
              /\ fs' = IF o.mkdir THEN [fs EXCEPT !.dir = TRUE] ELSE fs
              /\ IF o.next = "list"
                 THEN /\ \E p \in execGoStart(ctx, r, ArgsList) : calls' = Append(calls, p)
                      /\ pc' = "list"
                      /\ UNCHANGED <<op, ctx, ret>>
                 ELSE /\ Return("NewRunner", o.next = "ok", o.text)
                      /\ UNCHANGED calls
    /\ UNCHANGED <<r, input, fs0>>

\* NewRunner from the return of "go list -m" to its own return or to the wait for
\* "go mod init" (runner.go:51-58)
NewRunnerListDone ==
    /\ op = "NewRunner"
    /\ pc = "list"
    /\ cur.st = "done"
    /\ LET res == exec(r, cur)
       IN  IF res.ok
           THEN /\ steps' = Append(steps, <<"list", "ok">>)
                /\ \E p \in execGoInModDirStart(ctx, r, ModInitArgs(r, res.val)) :
                      calls' = Append(calls, p)
                /\ pc' = "init"
                /\ UNCHANGED <<op, ctx, ret>>
           ELSE /\ steps' = Append(steps, <<"list", "fail">>)
                /\ Return("NewRunner", FALSE, res.text)
                /\ UNCHANGED calls
    /\ UNCHANGED <<r, input, fs, fs0>>

\* a bug: the error of "go mod init" is dropped
NewRunnerInitDoneErrDropped ==
    /\ op = "NewRunner"
    /\ pc = "init"
    /\ cur.st = "done"
    /\ steps' = Append(steps, <<"init", "ok">>)
    /\ Return("NewRunner", TRUE, <<>>)
    /\ UNCHANGED <<r, input, calls, fs, fs0>>

\* NewRunner from the return of "go mod init" to its own return (runner.go:58-62)
NewRunnerInitDone ==
    /\ op = "NewRunner"
    /\ pc = "init"
    /\ cur.st = "done"
    /\ LET res == exec(r, cur)
       IN  /\ steps' = Append(steps, <<"init", IF res.ok THEN "ok" ELSE "fail">>)
           /\ Return("NewRunner", res.ok, res.text)
    /\ UNCHANGED <<r, input, calls, fs, fs0>>

\* a method of the Runner up to the wait for its subprocess
CallMethod(name, in, args, cx) ==
    /\ op = "none"
    /\ Constructed
    /\ op' = name
    /\ pc' = "run"
    /\ ctx' = cx
    /\ input' = in
    /\ \E p \in execGoInModDirStart(cx, r, args) : calls' = <<p>>
    /\ ret' = NoRet
    /\ UNCHANGED <<r, steps, fs, fs0>>

\* GetD up to the wait for "go get -d" (runner.go:102-111)
CallGetD(update, packages, cx) ==
    CallMethod("GetD", [update |-> update, packages |-> packages],
               GetDArgs(r, update, packages), cx)

\* Install up to the wait for "go install" (runner.go:116-117)
CallInstall(packages, cx) ==
    CallMethod("Install", [update |-> <<>>, packages |-> packages], InstallArgs(packages), cx)

\* ModTidy up to the wait for "go mod tidy" (runner.go:122-123)
CallModTidy(cx) ==
    CallMethod("ModTidy", NoInput, ModTidyArgs, cx)

\* GetD, Install and ModTidy from the return of their subprocess: return its error
\* (runner.go:111-112, 117-118, 123-124)
MethodReturn ==
    /\ op \in Methods
    /\ cur.st = "done"
    /\ LET res == exec(r, cur)
       IN  Return(op, res.ok, res.text)
    /\ UNCHANGED <<r, input, calls, steps, fs, fs0>>

CtxStates == { "live", "canceled", "deadline" }

Environment ==
    \/ \E code \in 0..1, out \in VersionOutputs \cup ListOutputs \cup OtherOutputs,
          wrote \in BOOLEAN : ProcExit(code, out, wrote)
    \/ \E how \in CtxStates \ { "live" },
          out \in VersionOutputs \cup ListOutputs \cup OtherOutputs : CtxFire(how, out)

Construction ==
    \/ \E insecure \in BOOLEAN, modDir \in ModDirs, cx \in CtxStates :
          CallNewRunner(insecure, modDir, GoCmd, cx)
    \/ NewRunnerVersionDone
    \/ NewRunnerListDone
    \/ NewRunnerInitDone

Use ==
    \/ \E update \in Policies, packages \in PackageLists, cx \in CtxStates :
          CallGetD(update, packages, cx)
    \/ \E packages \in PackageLists, cx \in CtxStates : CallInstall(packages, cx)
    \/ \E cx \in CtxStates : CallModTidy(cx)
    \/ MethodReturn

Next == Construction \/ Use \/ Environment

Spec == Init /\ [][Next]_vars

\* once cmd.Run has returned, the calling goroutine runs on to its return or to its
\* next wait
Continue == NewRunnerVersionDone \/ NewRunnerListDone \/ NewRunnerInitDone \/ MethodReturn

FairSpec == Spec /\ WF_vars(Continue)

\* Runner.exec as a function of the Runner's fields: a Runner with either value of
\* verbose, used through its three methods
InitExec ==
    /\ r \in [goCmd : {GoCmd}, modDir : ModDirs, insecure : BOOLEAN, verbose : BOOLEAN]
    /\ op = "none"
    /\ pc = "idle"
    /\ ctx = "live"
    /\ input = NoInput
    /\ calls = <<>>
    /\ steps = <<>>
    /\ fs = [dir |-> TRUE, manifest |-> TRUE]
    /\ fs0 = fs
    /\ ret = [op |-> "NewRunner", ok |-> TRUE, text |-> <<>>]

NextExec == Use \/ Environment

SpecExec == InitExec /\ [][NextExec]_vars

(***************************************************************************)
(* Properties                                                              *)
(***************************************************************************)
\* s begins with p, element by element
StartsWith(s, p) == Len(p) <= Len(s) /\ \A i \in 1..Len(p) : s[i] = p[i]

\* s without its trailing newlines
Stripped(s) ==
    LET keep == { i \in 1..Len(s) : s[i] # LF }
        n == IF keep = {} THEN 0 ELSE CHOOSE i \in keep : \A j \in keep : j <= i
    IN  SubSeq(s, 1, n)

NewRunnerReturned == op = "none" /\ ret.op = "NewRunner"

MethodReturned == op = "none" /\ ret.op \in Methods

\* the result of NewRunner's os.Stat, "none" if it was not reached
StatResult == IF Len(steps) >= 4 THEN steps[4][2] ELSE "none"

CountCalls(args) == Cardinality({ i \in 1..Len(calls) : calls[i].args = args })

CountModInit == Cardinality({ i \in 1..Len(calls) : IsModInit(calls[i].args) })

\* C1: whenever the output of the version query does not start with
\* "go version go1.14.", NewRunner fails and its failure text contains the detected
\* version (the output without its trailing newlines) verbatim
C1_VersionMismatchFails ==
    (NewRunnerReturned /\ ~StartsWith(calls[1].out, VersionPrefix))
        => (~ret.ok /\ Contains(ret.text, Stripped(calls[1].out)))

\* a version query that exited zero and printed "go version go1.15.2": NewRunner failed
C1_Witness ==
    /\ NewRunnerReturned
    /\ calls[1].err = "nil"
    /\ calls[1].out = SubSeq(VersionPrefix, 1, 15) \o <<"5", ".", "2", LF>>
    /\ ~ret.ok

\* C2 as claimed: with no manifest (stat reports not-found) NewRunner makes exactly one
\* "list -m" call and exactly one "mod init" call, the list call first, and the module
\* name passed to "mod init" is the listed name joined with modDir
C2_ListThenInit ==
    (NewRunnerReturned /\ StatResult = "notexist")
        => /\ CountCalls(ArgsList) = 1
           /\ CountModInit = 1
           /\ Len(calls) = 3
           /\ calls[2].args = ArgsList
           /\ IsModInit(calls[3].args)
           /\ calls[3].args = << <<"mod">>, <<"init">>,
                                 filepathJoin(<<Stripped(calls[2].out), r.modDir>>) >>

\* C2 amended: with no manifest NewRunner makes exactly one "list -m" call, in the
\* caller's directory; if that call succeeds it then makes exactly one "mod init" call,
\* in modDir, whose module name is the listed name joined with modDir; if the list call
\* fails no "mod init" call is made
C2_ListThenInitIfListed ==
    (NewRunnerReturned /\ StatResult = "notexist")
        => /\ CountCalls(ArgsList) = 1
           /\ Len(calls) >= 2
           /\ calls[2].args = ArgsList
           /\ calls[2].dir = <<>>
           /\ IF calls[2].err = "nil"
              THEN /\ Len(calls) = 3
                   /\ CountModInit = 1
                   /\ calls[3].dir = Clean(r.modDir)
                   /\ calls[3].args = << <<"mod">>, <<"init">>,
                                         filepathJoin(<<Stripped(calls[2].out), r.modDir>>) >>
              ELSE /\ Len(calls) = 2
                   /\ CountModInit = 0

\* "list -m" printed "m/a", modDir is "t/../b": "mod init m/a/b" was run
C2_Witness ==
    /\ NewRunnerReturned
    /\ StatResult = "notexist"
    /\ Len(calls) = 3
    /\ calls[2].out = <<"m", "/", "a">>
    /\ r.modDir = <<"t", "/", ".", ".", "/", "b">>
    /\ calls[3].args[3] = <<"m", "/", "a", "/", "b">>

\* C3: when stat finds the manifest, the version query is the only subprocess call of
\* the construction: no "list -m", no "mod init"
C3_NoBootstrapWithManifest ==
    (NewRunnerReturned /\ StatResult = "ok")
        => /\ Len(calls) = 1
           /\ calls[1].args = ArgsVersion
           /\ CountCalls(ArgsList) = 0
           /\ CountModInit = 0

C3_Witness ==
    /\ NewRunnerReturned
    /\ StatResult = "ok"
    /\ fs0.manifest
    /\ ret.ok

IsUpdateFlag(a) == a = <<"-u">> \/ a = <<"-u=patch">>

\* C4: GetD runs the tool with "get", "-d", then "-insecure" iff insecure, then the
\* policy's flag iff the policy is not no-update, then the packages in their order
C4_GetDArgs ==
    (op = "GetD" \/ (op = "none" /\ ret.op = "GetD"))
        => LET a == calls[1].args
               k == Len(a) - Len(input.packages)
               flags == 3..k
           IN  /\ k >= 2
               /\ a[1] = <<"get">>
               /\ a[2] = <<"-d">>
               /\ SubSeq(a, k + 1, Len(a)) = input.packages
               /\ r.insecure <=> (\E i \in flags : a[i] = <<"-insecure">>)
               /\ (input.update # NoUpdatePolicy) <=> (\E i \in flags : IsUpdateFlag(a[i]))
               /\ \A i \in flags : a[i] = <<"-insecure">> \/ a[i] = input.update
               /\ k = 2 + (IF r.insecure THEN 1 ELSE 0)
                        + (IF input.update # NoUpdatePolicy THEN 1 ELSE 0)
               /\ \A i, j \in flags :
                     (a[i] = <<"-insecure">> /\ IsUpdateFlag(a[j])) => i < j

\* "go get -d -insecure -u p@v1 q" was run
C4_Witness ==
    /\ op = "none"
    /\ ret.op = "GetD"
    /\ r.insecure
    /\ input.update = UpdatePolicy
    /\ input.packages = << <<"p@v1">>, <<"q">> >>
    /\ Len(calls[1].args) = 6

\* C5: the failure text of exec: after a non-zero exit with verbose unset it is exactly
\* the captured output; after a non-zero exit with verbose set, and after any other
\* failure, it contains the command line, the captured output and the underlying error
C5_FailureText ==
    (MethodReturned /\ ~ret.ok)
        => LET p == calls[1]
           IN  IF p.err = "exit" /\ ~r.verbose
               THEN ret.text = p.out
               ELSE /\ Contains(ret.text, r.goCmd \o <<" ">> \o Join(p.args, <<" ">>))
                    /\ Contains(ret.text, p.out)
                    /\ Contains(ret.text, p.errText)
                    /\ ret.text # p.out

\* a non-zero exit under verbose that printed "e\n"
C5_Witness ==
    /\ MethodReturned
    /\ ~ret.ok
    /\ r.verbose
    /\ calls[1].err = "exit"
    /\ ~calls[1].killed
    /\ calls[1].out = <<"e", LF>>

\* the context fired while the subprocess of the call in progress was running
Killed == op # "none" /\ cur.st = "done" /\ cur.killed

C7_FailureNamesCancellation ==
    (op = "none" /\ ret.op # "none" /\ calls[Len(calls)].killed)
        => /\ ~ret.ok
           /\ \/ Contains(ret.text, <<"signal: killed">>)
              \/ Contains(ret.text, CtxErr("canceled"))
              \/ Contains(ret.text, CtxErr("deadline"))

\* C8: GetD, Install and ModTidy each make exactly one subprocess invocation, of the
\* tool, in modDir, wait for it, and return a failure iff it failed
C8_OneInvocation ==
    /\ op \in Methods => Len(calls) = 1
    /\ MethodReturned
          => /\ Len(calls) = 1
             /\ calls[1].st = "done"
             /\ calls[1].command = r.goCmd
             /\ calls[1].dir = Clean(r.modDir)
             /\ ~ret.ok <=> calls[1].err # "nil"

\* Install whose "go install" exited non-zero: one invocation, a failure returned
C8_Witness ==
    /\ MethodReturned
    /\ ret.op = "Install"
    /\ calls[1].err = "exit"
    /\ ~calls[1].killed
    /\ ~ret.ok

StepOrder == <<"version", "check", "mkdir", "stat", "list", "init">>

StepPassed(i) == steps[i][2] = "ok" \/ (i = 4 /\ steps[i][2] = "notexist")

\* C10: NewRunner takes its steps in the order version query, prefix check, MkdirAll,
\* Stat, list, init; a step is taken only after every earlier one passed, a failed step
\* is the last and makes NewRunner fail; modDir is not created and nothing else is run
\* after a failed query or a mismatch, and the bootstrap calls follow only a not-found
C10_StepsInOrder ==
    /\ Len(steps) <= Len(StepOrder)
    /\ \A i \in 1..Len(steps) : steps[i][1] = StepOrder[i]
    /\ \A i \in 1..Len(steps) : i < Len(steps) => StepPassed(i)
    /\ (op = "NewRunner" \/ NewRunnerReturned)
          => /\ Len(steps) >= 1 => (steps[1][2] = "ok" <=> calls[1].err = "nil")
             /\ Len(steps) >= 2
                   => (steps[2][2] = "ok" <=> StartsWith(calls[1].out, VersionPrefix))
             /\ fs.dir # fs0.dir => (Len(steps) >= 3 /\ steps[3][2] = "ok")
             /\ (Len(steps) >= 3 /\ steps[3][2] = "ok") => fs.dir
             /\ Len(calls) >= 2 => (Len(steps) >= 4 /\ steps[4][2] = "notexist")
             /\ Len(calls) >= 3 => (Len(steps) >= 5 /\ steps[5][2] = "ok")
             /\ Len(calls) <= 3
    /\ NewRunnerReturned
          => /\ Len(steps) >= 1
             /\ ret.ok <=> /\ StepPassed(Len(steps))
                           /\ Len(steps) = IF StatResult = "ok" THEN 4 ELSE 6
             /\ ~ret.ok => ~StepPassed(Len(steps))
             /\ Len(calls) = IF Len(steps) <= 4 THEN 1 ELSE Len(steps) - 3

\* a version mismatch in a directory that did not exist: NewRunner failed after two steps
C10_Witness ==
    /\ NewRunnerReturned
    /\ Len(steps) = 2
    /\ steps[2][2] = "fail"
    /\ ~fs0.dir
    /\ ~ret.ok

====
